---- MODULE Spec2Model ----
(***************************************************************************)
(* Model of src/src/structured_data.rs: the syslog structured-data parser  *)
(* (nom combinators), the StructuredElement value type (Display,           *)
(* PartialEq) and the lazily unescaping ParamsIter.                        *)
(*                                                                         *)
(* Text is a sequence of one-character strings.  A parser result is a      *)
(* record: [ok |-> FALSE] for nom's Err::Error, and                        *)
(* [ok |-> TRUE, rest |-> remaining input, val |-> output] for Ok.         *)
(***************************************************************************)
EXTENDS Naturals, Sequences, FiniteSets

VARIABLES
    pc,      \* "feed" while the caller still assembles its argument, "done" after
    input,   \* the text handed to the parser
    fed,     \* how many pieces the input was assembled from
    call,    \* the operation that ran last, with its flags
    out,     \* what that operation returned
    shown,   \* the Display rendering of the parsed element
    els,     \* the elements handed to PartialEq::eq
    eqr,     \* the results eq returned, in schedule order
    iter,    \* the ParamsIter: [params, pos]
    items    \* what the ParamsIter yielded so far

vars == <<pc, input, fed, call, out, shown, els, eqr, iter, items>>

----------------------------------------------------------------------------
(* Bounds of the model.                                                    *)

MaxTokens == 4
MaxGroups == 4
MaxValueLen == 6
MaxRawLen == 4
MaxParams == 2
MaxTripleParams == 1

----------------------------------------------------------------------------
(* Text helpers.                                                           *)

Take(s, n) == SubSeq(s, 1, n)

Drop(s, n) == SubSeq(s, n + 1, Len(s))

StartsWith(s, t) == Len(s) >= Len(t) /\ Take(s, Len(t)) = t

Min(S) == CHOOSE x \in S : \A y \in S : x <= y

\* Length of the longest prefix of s none of whose characters is in stops.
PrefixOutside(stops, s) ==
    LET hit == {i \in 1..Len(s) : s[i] \in stops}
    IN  IF hit = {} THEN Len(s) ELSE Min(hit) - 1

\* Length of the longest prefix of s all of whose characters are in keep.
PrefixInside(keep, s) ==
    LET hit == {i \in 1..Len(s) : s[i] \notin keep}
    IN  IF hit = {} THEN Len(s) ELSE Min(hit) - 1

None == [some |-> FALSE]

Some(e) == [some |-> TRUE, id |-> e.id, params |-> e.params]

Err == [ok |-> FALSE]

Ok(rest, val) == [ok |-> TRUE, rest |-> rest, val |-> val]

----------------------------------------------------------------------------
(* Character classes.                                                      *)

\* char::is_whitespace, restricted to the characters of the model
Whitespace == {" ", "\t", "\n"}

\* nom's space0 accepts spaces and tabs
SpaceOrTab == {" ", "\t"}

IdStop == Whitespace \cup {"]", "="}

NameStop == {"]", "="}

ValueStop == {"\\", "\""}

----------------------------------------------------------------------------
(* nom combinators, complete versions.                                     *)

tag(t, i) == IF StartsWith(i, t) THEN Ok(Drop(i, Len(t)), t) ELSE Err

take_till1(stops, i) ==
    LET n == PrefixOutside(stops, i)
    IN  IF n = 0 THEN Err ELSE Ok(Drop(i, n), Take(i, n))

\* take_while1(|c| c != '\\' && c != '"'): the characters kept are those outside stops
take_while1(stops, i) ==
    LET n == PrefixOutside(stops, i)
    IN  IF n = 0 THEN Err ELSE Ok(Drop(i, n), Take(i, n))

space0(i) ==
    LET n == PrefixInside(SpaceOrTab, i)
    IN  Ok(Drop(i, n), Take(i, n))

\* Variant of take_until that runs to the last occurrence instead of the first
take_until_last(c, i) ==
    LET hit == {k \in 1..Len(i) : i[k] = c}
        last == CHOOSE k \in hit : \A j \in hit : j <= k
    IN  IF hit = {} THEN Err ELSE Ok(Drop(i, last - 1), Take(i, last - 1))

\* take_until("]"): everything before the first occurrence of the one-character tag
take_until(c, i) ==
    LET hit == {k \in 1..Len(i) : i[k] = c}
    IN  IF hit = {} THEN Err ELSE Ok(Drop(i, Min(hit) - 1), Take(i, Min(hit) - 1))

anychar(i) == IF i = <<>> THEN Err ELSE Ok(Drop(i, 1), i[1])

\* escaped(take_while1(..), '\\', anychar): the loop of nom's Escaped::process, with
\* n the number of characters of input already passed over.
RECURSIVE escapedLoop(_, _)
escapedLoop(input0, n) ==
    IF n = Len(input0)
    THEN Ok(<<>>, input0)
    ELSE LET i == Drop(input0, n)
             normal == take_while1(ValueStop, i)
         IN  IF normal.ok
             THEN IF normal.rest = <<>>
                  THEN Ok(<<>>, input0)
                  ELSE IF Len(normal.rest) = Len(i)
                       THEN Ok(Drop(input0, n), Take(input0, n))
                       ELSE escapedLoop(input0, Len(input0) - Len(normal.rest))
             ELSE IF i[1] = "\\"
                  THEN IF 1 >= Len(i)
                       THEN Err
                       ELSE LET esc == anychar(Drop(i, 1))
                            IN  IF ~esc.ok
                                THEN Err
                                ELSE IF esc.rest = <<>>
                                     THEN Ok(<<>>, input0)
                                     ELSE escapedLoop(input0, Len(input0) - Len(esc.rest))
                  ELSE IF n = 0
                       THEN Err
                       ELSE Ok(Drop(input0, n), Take(input0, n))

\* Variant of escaped that does not skip the character after a backslash: the value
\* stops at the first quote whatever precedes it
escaped_no_skip(i) ==
    LET n == PrefixOutside({"\""}, i)
    IN  IF i = <<>>
        THEN Ok(<<>>, i)
        ELSE IF n = 0 THEN Err ELSE Ok(Drop(i, n), Take(i, n))

escaped(i) == escapedLoop(i, 0)

----------------------------------------------------------------------------
(* How nom chains parsers.                                                 *)

\* match parser(i) { Ok(r) => OnOk(r), Err(Err::Error(_)) => onErr }
Match(r, OnOk(_), onErr) == IF r.ok THEN OnOk(r) ELSE onErr

\* A sequence (tuple, delimited, separated_pair, terminated, the ? operator): the next
\* parser runs on the remainder of the one before, and the first error is the result.
AndThen(r, Then(_)) == Match(r, Then, Err)

\* alt((first, second)): the second branch is tried on the same input when the first fails
alt(first, second) == IF first.ok THEN first ELSE second

----------------------------------------------------------------------------
(* The value and parameter grammars.                                       *)

param_value(i) ==
    alt(AndThen(tag(<<"\"", "\"">>, i), LAMBDA empty :
            Ok(empty.rest, <<>>)),
        AndThen(tag(<<"\"">>, i), LAMBDA open :
        AndThen(escaped(open.rest), LAMBDA body :
        AndThen(tag(<<"\"">>, body.rest), LAMBDA close :
            Ok(close.rest, body.val)))))

\* param: the pair (name, value); gap is the text terminated(tag("="), space0) matched
\* after the "=", which separated_pair drops.
param(i) ==
    AndThen(take_till1(NameStop, i), LAMBDA name :
    AndThen(tag(<<"=">>, name.rest), LAMBDA equals :
    AndThen(space0(equals.rest), LAMBDA sp :
    AndThen(param_value(sp.rest), LAMBDA value :
        Ok(value.rest, [pair |-> <<name.val, value.val>>, gap |-> sp.val])))))

\* separated_list0(tag(" "), param): the loop after the first element
RECURSIVE separated_list0_loop(_, _)
separated_list0_loop(i, res) ==
    Match(tag(<<" ">>, i),
          LAMBDA sep :
              Match(param(sep.rest),
                    LAMBDA p : IF Len(p.rest) = Len(i)
                               THEN Err
                               ELSE separated_list0_loop(p.rest, Append(res, p.val)),
                    Ok(i, res)),
          Ok(i, res))

separated_list0(i) ==
    Match(param(i),
          LAMBDA p : separated_list0_loop(p.rest, <<p.val>>),
          Ok(i, <<>>))

----------------------------------------------------------------------------
(* StructuredDatumParser.                                                  *)

Gaps(idGap, ps) == <<idGap>> \o [k \in 1..Len(ps) |-> ps[k].gap]

Pairs(ps) == [k \in 1..Len(ps) |-> ps[k].pair]

\* structured_datum_strict.  val is Some(StructuredElement {id, params}); gaps lists
\* what the space0 after the id and the space0 after each "=" matched, which the map
\* closure |(id, _, params)| and separated_pair drop.
structured_datum_strict(i) ==
    AndThen(tag(<<"[">>, i), LAMBDA open :
    AndThen(take_till1(IdStop, open.rest), LAMBDA id :
    AndThen(space0(id.rest), LAMBDA sp :
    AndThen(separated_list0(sp.rest), LAMBDA params :
    AndThen(tag(<<"]">>, params.rest), LAMBDA close :
        [ok |-> TRUE,
         rest |-> close.rest,
         val |-> Some([id |-> id.val, params |-> Pairs(params.val)]),
         gaps |-> Gaps(sp.val, params.val)])))))

\* The second branch of structured_datum_permissive:
\* delimited(tag("["), map(take_until("]"), |_| None), tag("]"))
discarded_bracket(i) ==
    AndThen(tag(<<"[">>, i), LAMBDA open :
    AndThen(take_until("]", open.rest), LAMBDA skip :
    AndThen(tag(<<"]">>, skip.rest), LAMBDA close :
        [ok |-> TRUE, rest |-> close.rest, val |-> None, gaps |-> <<>>])))

structured_datum_permissive(i) ==
    alt(structured_datum_strict(i), discarded_bracket(i))

\* Variant of parse without the empty-element policy
parse_keep_empty(allow_failure, allow_empty, i) ==
    IF allow_failure
    THEN structured_datum_permissive(i)
    ELSE structured_datum_strict(i)

\* StructuredDatumParser::parse
parse(allow_failure, allow_empty, i) ==
    AndThen(IF allow_failure
            THEN structured_datum_permissive(i)
            ELSE structured_datum_strict(i),
            LAMBDA r : IF ~allow_empty /\ r.val.some /\ r.val.params = <<>>
                       THEN Err
                       ELSE r)

----------------------------------------------------------------------------
(* The multi-element driver.                                               *)

\* Variant of many1's loop in which a later failure fails the whole repetition
RECURSIVE many1_loop_fail(_, _, _, _)
many1_loop_fail(allow_failure, allow_empty, i, acc) ==
    IF i = <<>>
    THEN Ok(i, acc)
    ELSE AndThen(parse(allow_failure, allow_empty, i), LAMBDA r :
             many1_loop_fail(allow_failure, allow_empty, r.rest, Append(acc, r.val)))

\* many1's loop after the first success: acc holds the outputs so far
RECURSIVE many1_loop(_, _, _, _)
many1_loop(allow_failure, allow_empty, i, acc) ==
    Match(parse(allow_failure, allow_empty, i),
          LAMBDA r : IF Len(r.rest) = Len(i)
                     THEN Err
                     ELSE many1_loop(allow_failure, allow_empty, r.rest,
                                     Append(acc, r.val)),
          Ok(i, acc))

many1(allow_failure, allow_empty, i) ==
    AndThen(parse(allow_failure, allow_empty, i), LAMBDA r :
        many1_loop(allow_failure, allow_empty, r.rest, <<r.val>>))

\* Variant of filter_map that stops at the first None (map_while)
filter_map_until_none(its) ==
    LET none == {k \in 1..Len(its) : ~its[k].some}
        n == IF none = {} THEN Len(its) ELSE Min(none) - 1
    IN  [k \in 1..n |-> [id |-> its[k].id, params |-> its[k].params]]

\* items.iter().filter_map(|item| item.clone()).collect()
filter_map(its) ==
    LET keep == SelectSeq(its, LAMBDA it : it.some)
    IN  [k \in 1..Len(keep) |-> [id |-> keep[k].id, params |-> keep[k].params]]

\* Variant of parse_structured_data without the "-" branch
parse_structured_data_no_nil(allow_failure, allow_empty, i) ==
    AndThen(many1(allow_failure, allow_empty, i), LAMBDA many :
        Ok(many.rest, filter_map(many.val)))

parse_structured_data(allow_failure, allow_empty, i) ==
    alt(AndThen(tag(<<"-">>, i), LAMBDA nil :
            Ok(nil.rest, <<>>)),
        AndThen(many1(allow_failure, allow_empty, i), LAMBDA many :
            Ok(many.rest, filter_map(many.val))))

structured_data(i) == parse_structured_data(TRUE, TRUE, i)

structured_data_optional(i) == parse_structured_data(FALSE, FALSE, i)

----------------------------------------------------------------------------
(* impl Iterator for ParamsIter.                                           *)

\* Variant of the loop that drops the backslash of an unrecognised escape
RECURSIVE unescape_drop(_, _, _, _)
unescape_drop(value, k, escaped_, trimmed) ==
    IF k > Len(value)
    THEN trimmed
    ELSE LET c == value[k]
         IN  IF c = "\\" /\ ~escaped_
             THEN unescape_drop(value, k + 1, TRUE, trimmed)
             ELSE IF c = "n" /\ escaped_
                  THEN unescape_drop(value, k + 1, FALSE, Append(trimmed, "\n"))
                  ELSE unescape_drop(value, k + 1, FALSE, Append(trimmed, c))

\* The body of the for loop over value.chars(), from character k on
RECURSIVE unescape(_, _, _, _)
unescape(value, k, escaped_, trimmed) ==
    IF k > Len(value)
    THEN trimmed
    ELSE LET c == value[k]
         IN  IF c = "\\" /\ ~escaped_
             THEN unescape(value, k + 1, TRUE, trimmed)
             ELSE IF c = "n" /\ escaped_
                  THEN unescape(value, k + 1, FALSE, Append(trimmed, "\n"))
                  ELSE IF c # "\"" /\ c # "]" /\ c # "\\" /\ escaped_
                       THEN unescape(value, k + 1, FALSE, trimmed \o <<"\\", c>>)
                       ELSE unescape(value, k + 1, FALSE, Append(trimmed, c))

\* ParamsIter::next: the item returned and the iterator afterwards (pos counts from 0)
next(it) ==
    IF it.pos >= Len(it.params)
    THEN [item |-> None, iter |-> it]
    ELSE LET key == it.params[it.pos + 1][1]
             value == it.params[it.pos + 1][2]
         IN  [item |-> [some |-> TRUE, key |-> key,
                        value |-> unescape(value, 1, FALSE, <<>>)],
              iter |-> [it EXCEPT !.pos = it.pos + 1]]

----------------------------------------------------------------------------
(* impl PartialEq for StructuredElement.                                   *)

CodePoint(c) ==
    CASE c = "\t" -> 9   [] c = "\n" -> 10  [] c = " " -> 32  [] c = "\"" -> 34
      [] c = "-" -> 45   [] c = "=" -> 61   [] c = "[" -> 91  [] c = "\\" -> 92
      [] c = "]" -> 93   [] c = "a" -> 97   [] c = "b" -> 98  [] c = "c" -> 99
      [] c = "d" -> 100  [] c = "j" -> 106  [] c = "k" -> 107 [] c = "m" -> 109
      [] c = "n" -> 110  [] c = "v" -> 118  [] c = "w" -> 119

\* Ord for str: lexicographic on the characters
RECURSIVE StrLess(_, _)
StrLess(s, t) ==
    IF t = <<>>
    THEN FALSE
    ELSE IF s = <<>>
         THEN TRUE
         ELSE IF s[1] = t[1]
              THEN StrLess(Tail(s), Tail(t))
              ELSE CodePoint(s[1]) < CodePoint(t[1])

\* Ord for (S, S): lexicographic on the pair
PairLess(p, q) == StrLess(p[1], q[1]) \/ (p[1] = q[1] /\ StrLess(p[2], q[2]))

RECURSIVE insert(_, _)
insert(p, sorted) ==
    IF sorted = <<>>
    THEN <<p>>
    ELSE IF PairLess(p, sorted[1])
         THEN <<p>> \o sorted
         ELSE <<sorted[1]>> \o insert(p, Tail(sorted))

\* Vec::sort on the cloned parameter list
RECURSIVE sort(_)
sort(params) ==
    IF params = <<>> THEN <<>> ELSE insert(params[1], sort(Tail(params)))

\* Iterator::zip stops with the shorter side
zip(p1, p2) ==
    [k \in 1..(IF Len(p1) <= Len(p2) THEN Len(p1) ELSE Len(p2)) |-> <<p1[k], p2[k]>>]

\* Variant of eq that compares the parameter lists as stored, without sorting them
eq_unsorted(self, other) ==
    IF self.id # other.id
    THEN FALSE
    ELSE LET zipped == zip(self.params, other.params)
         IN  \A k \in 1..Len(zipped) :
                 /\ zipped[k][1][1] = zipped[k][2][1]
                 /\ zipped[k][1][2] = zipped[k][2][2]

eq(self, other) ==
    IF self.id # other.id
    THEN FALSE
    ELSE LET params1 == sort(self.params)
             params2 == sort(other.params)
             zipped == zip(params1, params2)
         IN  \A k \in 1..Len(zipped) :
                 /\ zipped[k][1][1] = zipped[k][2][1]
                 /\ zipped[k][1][2] = zipped[k][2][2]

----------------------------------------------------------------------------
(* impl Display for StructuredElement.                                     *)

RECURSIVE fmt_params(_)
fmt_params(params) ==
    IF params = <<>>
    THEN <<>>
    ELSE <<" ">> \o params[1][1] \o <<"=", "\"">> \o params[1][2] \o <<"\"">>
         \o fmt_params(Tail(params))

\* Variant of fmt that writes the decoded values instead of the stored ones
RECURSIVE fmt_params_decoded(_)
fmt_params_decoded(params) ==
    IF params = <<>>
    THEN <<>>
    ELSE <<" ">> \o params[1][1] \o <<"=", "\"">>
         \o unescape(params[1][2], 1, FALSE, <<>>) \o <<"\"">>
         \o fmt_params_decoded(Tail(params))

fmt_decoded(e) == <<"[">> \o e.id \o fmt_params_decoded(e.params) \o <<"]">>

fmt(e) == <<"[">> \o e.id \o fmt_params(e.params) \o <<"]">>

----------------------------------------------------------------------------
(* The callers' inputs.                                                    *)

SeqsUpTo(S, n) == UNION {[1..k -> S] : k \in 0..n}

\* Pieces a single bracket group is assembled from
Tokens ==
    { <<"[", "a">>,
      <<"[">>,
      <<"]">>,
      <<" ">>,
      <<"\t">>,
      <<"\n">>,
      <<"=">>,
      <<"\"">>,
      <<" ", "k", "=">>,
      <<"k", "=", "\"", "v", "\"">>,
      <<" ", "j", "=", "\"", "\"">>,
      <<" ", "k", "=", "\"", "v", "\"">>,
      <<" ", "k", "=", " ", "\"", "v", "\"">>,
      <<" ", "k", "=", "\"", "\\", "\"", "]", "\"">> }

\* Pieces a structured-data field is assembled from
Groups ==
    { <<"[", "a", " ", "k", "=", "\"", "v", "\"", "]">>,
      <<"[", "b", " ", "j", "=", "\"", "w", "\"", "]">>,
      <<"[", "c", "]">>,
      <<"[", "a", " ", "k", "=", "]">>,
      <<"[", "a", " ", "k", "=", "\"", "v", "]">>,
      <<"[", "d">>,
      <<"-">>,
      <<" ", "m">> }

ValueChars == {"\"", "\\", "a", "]"}

RawChars == {"\\", "n", "\"", "]", "a"}

RawValues == SeqsUpTo(RawChars, MaxRawLen)

\* The parameter lists a ParamsIter walks: none, one, or one followed by a fixed second
StoredParams ==
    {<<>>}
    \cup {<< <<(<<"k">>), v>> >> : v \in RawValues}
    \cup {<< <<(<<"k">>), v>>, q >> :
             v \in RawValues,
             q \in { <<(<<"j">>), <<"\\", "n">> >>, <<(<<"k">>), <<"a">> >> }}

ParamPairs == {<<"k">>, <<"j">>} \X {<<"v">>, <<"v", "w">>}

Elements ==
    [id : {<<"a">>, <<"b">>}, params : SeqsUpTo(ParamPairs, MaxParams)]

SmallElements ==
    [id : {<<"a">>, <<"b">>}, params : SeqsUpTo(ParamPairs, MaxTripleParams)]

NoCall == [op |-> "none"]

----------------------------------------------------------------------------
(* The single-element recognizer and Display.                              *)

InitDatum ==
    /\ pc = "feed"
    /\ input = <<>>
    /\ fed = 0
    /\ call = NoCall
    /\ out = Err
    /\ shown = <<>>
    /\ els = <<>>
    /\ eqr = <<>>
    /\ iter = [params |-> <<>>, pos |-> 0]
    /\ items = <<>>

FeedToken ==
    /\ pc = "feed"
    /\ fed < MaxTokens
    /\ \E t \in Tokens : input' = input \o t
    /\ fed' = fed + 1
    /\ UNCHANGED <<pc, call, out, shown, els, eqr, iter, items>>

\* StructuredDatumParser { allow_failure, allow_empty }.parse(input)
Parse ==
    /\ pc = "feed"
    /\ \E allow_failure \in BOOLEAN, allow_empty \in BOOLEAN :
           /\ call' = [op |-> "parse", allow_failure |-> allow_failure,
                       allow_empty |-> allow_empty]
           /\ out' = parse(allow_failure, allow_empty, input)
    /\ pc' = "parsed"
    /\ UNCHANGED <<input, fed, shown, els, eqr, iter, items>>

\* format!("{}", element) on the element parse returned
Display ==
    /\ pc = "parsed"
    /\ out.ok
    /\ out.val.some
    /\ shown' = fmt(out.val)
    /\ pc' = "shown"
    /\ UNCHANGED <<input, fed, call, out, els, eqr, iter, items>>

NextDatum == FeedToken \/ Parse \/ Display

SpecDatum == InitDatum /\ [][NextDatum]_vars

----------------------------------------------------------------------------
(* The two profiles of the multi-element driver.                           *)

FeedGroup ==
    /\ pc = "feed"
    /\ fed < MaxGroups
    /\ \E g \in Groups : input' = input \o g
    /\ fed' = fed + 1
    /\ UNCHANGED <<pc, call, out, shown, els, eqr, iter, items>>

StructuredData ==
    /\ pc = "feed"
    /\ call' = [op |-> "structured_data"]
    /\ out' = structured_data(input)
    /\ pc' = "parsed"
    /\ UNCHANGED <<input, fed, shown, els, eqr, iter, items>>

StructuredDataOptional ==
    /\ pc = "feed"
    /\ call' = [op |-> "structured_data_optional"]
    /\ out' = structured_data_optional(input)
    /\ pc' = "parsed"
    /\ UNCHANGED <<input, fed, shown, els, eqr, iter, items>>

NextData == FeedGroup \/ StructuredData \/ StructuredDataOptional

SpecData == InitDatum /\ [][NextData]_vars

----------------------------------------------------------------------------
(* The value grammar.                                                      *)

FeedChar ==
    /\ pc = "feed"
    /\ fed < MaxValueLen
    /\ \E c \in ValueChars : input' = Append(input, c)
    /\ fed' = fed + 1
    /\ UNCHANGED <<pc, call, out, shown, els, eqr, iter, items>>

ParamValue ==
    /\ pc = "feed"
    /\ call' = [op |-> "param_value"]
    /\ out' = param_value(input)
    /\ pc' = "parsed"
    /\ UNCHANGED <<input, fed, shown, els, eqr, iter, items>>

NextValue == FeedChar \/ ParamValue

SpecValue == InitDatum /\ [][NextValue]_vars

----------------------------------------------------------------------------
(* Walking an element's parameters.                                        *)

\* element.params(): a fresh iterator at position 0
InitIter ==
    /\ pc = "iter"
    /\ input = <<>>
    /\ fed = 0
    /\ call = NoCall
    /\ out = Err
    /\ shown = <<>>
    /\ els = <<>>
    /\ eqr = <<>>
    /\ \E ps \in StoredParams : iter = [params |-> ps, pos |-> 0]
    /\ items = <<>>

\* One call of ParamsIter::next; out is what it returned
IterNext ==
    /\ pc = "iter"
    /\ LET r == next(iter)
       IN  /\ iter' = r.iter
           /\ out' = r.item
           /\ items' = IF r.item.some
                       THEN Append(items, <<r.item.key, r.item.value>>)
                       ELSE items
    /\ call' = [op |-> "next"]
    /\ UNCHANGED <<pc, input, fed, shown, els, eqr>>

NextIter == IterNext

SpecIter == InitIter /\ [][NextIter]_vars

----------------------------------------------------------------------------
(* Comparing elements.                                                     *)

\* The comparisons made, in order, as pairs of indices into els
Schedule(n) ==
    IF n = 2
    THEN << <<1, 2>> >>
    ELSE << <<1, 1>>, <<1, 2>>, <<2, 1>>, <<2, 3>>, <<1, 3>> >>

InitEqOf(E, n) ==
    /\ pc = "eq"
    /\ input = <<>>
    /\ fed = 0
    /\ call = NoCall
    /\ out = Err
    /\ shown = <<>>
    /\ els \in [1..n -> E]
    /\ eqr = <<>>
    /\ iter = [params |-> <<>>, pos |-> 0]
    /\ items = <<>>

\* els[l] == els[r] for the next pair (l, r) of the schedule
Compare ==
    /\ pc = "eq"
    /\ Len(eqr) < Len(Schedule(Len(els)))
    /\ LET lr == Schedule(Len(els))[Len(eqr) + 1]
       IN  eqr' = Append(eqr, eq(els[lr[1]], els[lr[2]]))
    /\ call' = [op |-> "eq"]
    /\ UNCHANGED <<pc, input, fed, out, shown, els, iter, items>>

NextEq == Compare

SpecEq == InitEqOf(Elements, 2) /\ [][NextEq]_vars

SpecEq3 == InitEqOf(SmallElements, 3) /\ [][NextEq]_vars

----------------------------------------------------------------------------
(* Properties of the single-element recognizer and of Display.             *)

\* The part of the input the last parser call consumed
Consumed == Take(input, Len(input) - Len(out.rest))

\* The parameters as the input spelled them: gaps[k + 1] follows the "=" of parameter k
RECURSIVE SpelledParams(_, _)
SpelledParams(params, gaps) ==
    IF params = <<>>
    THEN <<>>
    ELSE params[1][1] \o <<"=">> \o gaps[1] \o <<"\"">> \o params[1][2] \o <<"\"">>
         \o (IF Len(params) = 1 THEN <<>> ELSE <<" ">>)
         \o SpelledParams(Tail(params), Tail(gaps))

\* The element as the input spelled it, optional whitespace included
Spelled(r) ==
    <<"[">> \o r.val.id \o r.gaps[1] \o SpelledParams(r.val.params, Tail(r.gaps))
    \o <<"]">>

\* The optional whitespace is written the way Display writes it: one space between the
\* id and the first parameter (none without parameters), nothing after a "="
CanonicalGaps(r) ==
    /\ r.gaps[1] = (IF r.val.params = <<>> THEN <<>> ELSE <<" ">>)
    /\ \A k \in 2..Len(r.gaps) : r.gaps[k] = <<>>

\* C1 as stated: whenever parse returned a genuine element, whatever the flags, its
\* Display rendering is exactly the text parse consumed.
C1_RoundTrip == pc = "shown" => shown = Consumed

\* C1 as amended: the consumed text is the element with the optional whitespace the
\* grammar skips after the id and after each "=", and the Display rendering equals the
\* consumed text exactly when that whitespace is in Display's form (one space before
\* the first parameter, none before "]" or after "=").
C1_RoundTripUpToGaps ==
    pc = "shown" =>
        /\ Consumed = Spelled(out)
        /\ (shown = Consumed) <=> CanonicalGaps(out)

\* A two-parameter element, one value holding escapes, rendered back to its input
C1_Witness ==
    /\ pc = "shown"
    /\ Len(out.val.params) = 2
    /\ \E k \in 1..2 : \E j \in DOMAIN out.val.params[k][2] :
           out.val.params[k][2][j] = "\\"
    /\ shown = input

HasOpen == input # <<>> /\ input[1] = "["

\* Positions of the "]" that follow the opening character
Closes == {k \in 2..Len(input) : input[k] = "]"}

\* C7: with allow_failure, an input "[" ... "]" ... the strict grammar rejects gives
\* success without an element and the remainder right after the first "]"; parse fails
\* exactly when the input does not start with "[", has no later "]", or the strict
\* grammar matched an element without parameters and allow_empty is off.  Without
\* allow_failure a success without an element never occurs.
C7_PermissiveOutcome ==
    (pc \in {"parsed", "shown"} /\ call.op = "parse") =>
        LET strict == structured_datum_strict(input)
        IN  /\ (call.allow_failure /\ ~strict.ok /\ HasOpen /\ Closes # {}) =>
                   /\ out.ok
                   /\ ~out.val.some
                   /\ out.rest = Drop(input, Min(Closes))
            /\ call.allow_failure =>
                   (~out.ok <=>
                        \/ ~HasOpen
                        \/ Closes = {}
                        \/ (strict.ok /\ strict.val.params = <<>> /\ ~call.allow_empty))
            /\ ~call.allow_failure => ~(out.ok /\ ~out.val.some)

\* A malformed group skipped up to its first "]" although a second "]" follows
C7_Witness ==
    /\ pc = "parsed"
    /\ call.op = "parse"
    /\ call.allow_failure
    /\ out.ok
    /\ ~out.val.some
    /\ out.rest = <<"]">>
    /\ Len(input) > 3

----------------------------------------------------------------------------
(* Properties of the value grammar and of the unescaping iterator.         *)

\* Character k of s is the second character of a backslash pair: the character before
\* it is a backslash that is not itself the second character of a pair
RECURSIVE EscapedAt(_, _)
EscapedAt(s, k) == k > 1 /\ s[k - 1] = "\\" /\ ~EscapedAt(s, k - 1)

\* Positions of the quotes after the opening one that no backslash pair covers
Closers == {k \in 2..Len(input) : input[k] = "\"" /\ ~EscapedAt(input, k)}

\* C9: on an input that opens with a quote and has a later quote outside any backslash
\* pair, param_value returns the text between the opening quote and the first such
\* quote, escapes untouched, and the text after it as remainder (the empty value for an
\* input opening with two quotes); on every other input it fails.
C9_ValueEndsAtFirstUnescapedQuote ==
    (pc = "parsed" /\ call.op = "param_value") =>
        /\ IF input # <<>> /\ input[1] = "\"" /\ Closers # {}
           THEN /\ out.ok
                /\ out.val = SubSeq(input, 2, Min(Closers) - 1)
                /\ out.rest = Drop(input, Min(Closers))
           ELSE ~out.ok
        /\ StartsWith(input, <<"\"", "\"">>) => (out.ok /\ out.val = <<>>)

\* A value that keeps its escaped quote, with text following the closing quote
C9_Witness ==
    /\ pc = "parsed"
    /\ call.op = "param_value"
    /\ out.ok
    /\ out.val = <<"a", "\\", "\"">>
    /\ out.rest = <<"]">>

\* What the decoder emits for character k of the raw value v
Emitted(v, k) ==
    CASE ~EscapedAt(v, k) /\ v[k] = "\\" -> <<>>
      [] EscapedAt(v, k) /\ v[k] = "n" -> <<"\n">>
      [] EscapedAt(v, k) /\ v[k] \in {"\"", "]", "\\"} -> <<v[k]>>
      [] EscapedAt(v, k) /\ v[k] \notin {"n", "\"", "]", "\\"} -> <<"\\", v[k]>>
      [] ~EscapedAt(v, k) /\ v[k] # "\\" -> <<v[k]>>

RECURSIVE DecodedUpTo(_, _)
DecodedUpTo(v, k) == IF k = 0 THEN <<>> ELSE DecodedUpTo(v, k - 1) \o Emitted(v, k)

Decoded(v) == DecodedUpTo(v, Len(v))

\* C2: the iterator has yielded one pair per parameter it has passed, in stored order,
\* each the stored name with the two-state decoding of the stored value; a call
\* returns the pair it yields, and returns None only once every parameter was yielded.
C2_NextDecodes ==
    pc = "iter" =>
        /\ iter.pos <= Len(iter.params)
        /\ Len(items) = iter.pos
        /\ \A k \in 1..Len(items) :
               items[k] = <<iter.params[k][1], Decoded(iter.params[k][2])>>
        /\ call.op = "next" =>
               IF out.some
               THEN items # <<>> /\ <<out.key, out.value>> = items[Len(items)]
               ELSE Len(items) = Len(iter.params)

\* Both parameters yielded and the end reported; the first value held an escaped
\* backslash, an escaped n and an unrecognised escape
C2_Witness ==
    /\ pc = "iter"
    /\ call.op = "next"
    /\ ~out.some
    /\ Len(items) = 2
    /\ iter.params[1][2] = <<"\\", "\\", "\\", "a">>
    /\ items[1][2] = <<"\\", "\\", "a">>
    /\ items[2][2] = <<"\n">>

----------------------------------------------------------------------------
(* Properties of element equality.                                         *)

Occurrences(p, x) == Cardinality({k \in DOMAIN p : p[k] = x})

\* s holds the pairs of p, as often
IsPermutation(s, p) ==
    /\ Len(s) = Len(p)
    /\ \A k \in DOMAIN p : Occurrences(s, p[k]) = Occurrences(p, p[k])

\* The arrangement of p in which no pair precedes a smaller one
Sorted(p) ==
    CHOOSE s \in [1..Len(p) -> {p[k] : k \in DOMAIN p}] :
        /\ IsPermutation(s, p)
        /\ \A i \in DOMAIN s : \A j \in DOMAIN s : i < j => ~PairLess(s[j], s[i])

\* C6: eq holds exactly when the ids are equal and the sorted parameter lists agree on
\* the positions both have; so the same pairs in another order are equal, different ids
\* never are, and a list may equal a longer one.
C6_EqIsSortedPrefixAgreement ==
    (pc = "eq" /\ Len(els) = 2 /\ Len(eqr) = 1) =>
        LET a == els[1]
            b == els[2]
            shorter == IF Len(a.params) <= Len(b.params)
                       THEN Len(a.params)
                       ELSE Len(b.params)
        IN  /\ eqr[1] <=> (/\ a.id = b.id
                           /\ \A k \in 1..shorter :
                                  Sorted(a.params)[k] = Sorted(b.params)[k])
            /\ (a.id = b.id /\ IsPermutation(a.params, b.params)) => eqr[1]
            /\ a.id # b.id => ~eqr[1]

\* Two parameters stored out of order compare equal to the smaller one alone
C6_Witness ==
    /\ pc = "eq"
    /\ Len(els) = 2
    /\ eqr = <<TRUE>>
    /\ els[1].params = << <<(<<"k">>), <<"v">> >>, <<(<<"j">>), <<"v">> >> >>
    /\ els[2].params = << <<(<<"j">>), <<"v">> >> >>

\* C10: eq is an equivalence relation: reflexive (eqr[1] is a == a), symmetric (eqr[2]
\* is a == b, eqr[3] is b == a) and transitive (eqr[4] is b == c, eqr[5] is a == c).
C10_EqIsEquivalence ==
    (pc = "eq" /\ Len(els) = 3 /\ Len(eqr) = 5) =>
        /\ eqr[1]
        /\ eqr[2] <=> eqr[3]
        /\ (eqr[2] /\ eqr[4]) => eqr[5]

----------------------------------------------------------------------------
(* Properties of the multi-element driver.                                 *)

\* The bracket groups at the front of i: what the recognizer returns when it is
\* applied again and again to what it left, up to its first failure
RECURSIVE Recognized(_, _, _)
Recognized(allow_failure, allow_empty, i) ==
    LET r == parse(allow_failure, allow_empty, i)
    IN  IF i = <<>> \/ ~r.ok
        THEN <<>>
        ELSE <<r>> \o Recognized(allow_failure, allow_empty, r.rest)

\* The elements of the groups that are genuine, in order
RECURSIVE Genuine(_)
Genuine(groups) ==
    IF groups = <<>>
    THEN <<>>
    ELSE (IF groups[1].val.some
          THEN <<[id |-> groups[1].val.id, params |-> groups[1].val.params]>>
          ELSE <<>>)
         \o Genuine(Tail(groups))

Lenient == pc = "parsed" /\ call.op = "structured_data"

Strict == pc = "parsed" /\ call.op = "structured_data_optional"

\* C3: under the lenient profile, when the input is bracket groups end to end, the
\* result is the genuine elements among them in source order with nothing remaining;
\* a group only the fallback recognizes adds no element and does not fail the call.
\* Two well-formed groups back to back are both returned, in order.
C3_LenientKeepsGenuineGroups ==
    Lenient =>
        LET groups == Recognized(TRUE, TRUE, input)
        IN  /\ (groups # <<>> /\ groups[Len(groups)].rest = <<>>) =>
                   /\ out.ok
                   /\ out.rest = <<>>
                   /\ out.val = Genuine(groups)
            /\ input = <<"[", "a", " ", "k", "=", "\"", "v", "\"", "]",
                         "[", "b", " ", "j", "=", "\"", "w", "\"", "]">> =>
                   out = Ok(<<>>,
                            << [id |-> <<"a">>,
                                params |-> << <<(<<"k">>), <<"v">> >> >>],
                               [id |-> <<"b">>,
                                params |-> << <<(<<"j">>), <<"w">> >> >>] >>)

\* A discarded group first and last, a genuine one between them
C3_Witness ==
    /\ Lenient
    /\ input = <<"[", "a", " ", "k", "=", "]",
                 "[", "b", " ", "j", "=", "\"", "w", "\"", "]",
                 "[", "a", " ", "k", "=", "]">>
    /\ out.ok
    /\ out.rest = <<>>
    /\ Len(out.val) = 1
    /\ out.val[1].id = <<"b">>

\* C4: under the strict profile every returned element has an id and a parameter, and
\* the call fails when its first bracket group is malformed or has no parameters;
\* under the lenient profile a well-formed first group without parameters is returned
\* as an element with its id and an empty parameter list.
C4_EmptyElementPolicy ==
    LET first == structured_datum_strict(input)
    IN  /\ (Strict /\ out.ok) =>
               \A k \in DOMAIN out.val :
                   out.val[k].id # <<>> /\ out.val[k].params # <<>>
        /\ (Strict /\ HasOpen /\ (~first.ok \/ first.val.params = <<>>)) => ~out.ok
        /\ (Lenient /\ first.ok /\ first.val.params = <<>>) =>
               /\ out.ok
               /\ out.val # <<>>
               /\ out.val[1].id = first.val.id
               /\ out.val[1].id # <<>>
               /\ out.val[1].params = <<>>

\* The strict profile rejects a group without parameters followed by message text
C4_Witness ==
    /\ Strict
    /\ input = <<"[", "c", "]", " ", "m">>
    /\ ~out.ok

\* C5: on the input "-" both profiles succeed with no element and nothing remaining.
C5_NilValue ==
    ((Lenient \/ Strict) /\ input = <<"-">>) => out = Ok(<<>>, <<>>)

\* The strict profile was run on "-"
C5_Witness ==
    /\ Strict
    /\ input = <<"-">>
    /\ out.ok
    /\ out.val = <<>>

\* C8: in both profiles, once a first bracket group is recognized the call succeeds;
\* it returns the genuine elements of the groups recognized up to the first group that
\* fails, and the remainder is the input from that group's first character on: the
\* recognizer fails on the remainder, and the consumed prefix followed by the
\* remainder is the input.
C8_StopsBeforeFailingGroup ==
    (Lenient \/ Strict) =>
        LET flag == call.op = "structured_data"
            groups == Recognized(flag, flag, input)
        IN  groups # <<>> =>
                /\ out.ok
                /\ out.val = Genuine(groups)
                /\ out.rest = groups[Len(groups)].rest
                /\ Len(out.rest) <= Len(input)
                /\ Take(input, Len(input) - Len(out.rest)) \o out.rest = input
                /\ ~parse(flag, flag, out.rest).ok

\* The strict profile stops in front of a later group without parameters
C8_Witness ==
    /\ Strict
    /\ input = <<"[", "a", " ", "k", "=", "\"", "v", "\"", "]", "[", "c", "]", " ", "m">>
    /\ out.ok
    /\ Len(out.val) = 1
    /\ out.rest = <<"[", "c", "]", " ", "m">>

====
